---- MODULE Spec2Model ----
(***************************************************************************)
(* Model of the procurement RFP assistant: the proposal comparison engine  *)
(* compareProposalsForRfp (src/src/routes/index.ts:49-156) under Spec, and *)
(* the intake of vendor mails (src/src/routes/webhooks.ts and the          *)
(* from-text route of src/src/routes/proposals.ts) under MailSpec.  Each   *)
(* specification keeps the variables of the other at their initial value.  *)
(*                                                                         *)
(* One behaviour of Spec is one call: Init chooses the arguments (rfp,     *)
(* proposals), CompareEmpty and CompareScored are the two ways through the *)
(* function.                                                               *)
(*                                                                         *)
(* Numbers.  The scores of the source are IEEE doubles obtained by one     *)
(* subtraction and one division of the inputs, and a weighted sum.  The    *)
(* model computes them as exact rationals <<num, den>> in lowest terms     *)
(* with den > 0; the value a division by zero would produce is NaN.  Two   *)
(* totals that are equal as rationals but are sums of different terms      *)
(* (0.45 and 0.35 + 0.5 * 0.20) may differ in the last bit as doubles; the *)
(* properties below do not rest on such ties.  The values are far from    *)
(* the largest double, so that no difference overflows.                    *)
(*                                                                         *)
(* Inputs.  The arrays hold at most MaxProposals rows with distinct ids.   *)
(* They are drawn from two families: offers in any currency that state a   *)
(* price only (the currency filter against the price ranking), and offers  *)
(* in the rfp's currency that state every criterion but possibly one (the  *)
(* three criteria against each other).                                     *)
(***************************************************************************)
EXTENDS Integers, Sequences, FiniteSets, TLC

\* the comparison: the arguments of the call, its position and what it returned
VARIABLES rfp, proposals, pc, result

\* the mail intake: the EmailMessage and Proposal tables, the requests
\* received so far, and the requests that called the AI extraction
VARIABLES emailMessages, storedProposals, requests, extractions

compareVars == <<rfp, proposals, pc, result>>

mailVars == <<emailMessages, storedProposals, requests, extractions>>

vars == <<rfp, proposals, pc, result,
          emailMessages, storedProposals, requests, extractions>>

-----------------------------------------------------------------------------
(* Bounds of the explored inputs *)

\* longest proposals array
MaxProposals == 3

\* largest price, delivery time and warranty
MaxVal == 2

-----------------------------------------------------------------------------
(* Values *)

NULL == "null"

\* a negative value, zero and a value that is not halfway between them
Vals == {-1, 0, MaxVal}

\* number | null: <<>> is null, <<v>> the number v
NoNum == <<>>

Some(v) == <<v>>

ValOf(o) == o[1]

OptVals == {Some(v) : v \in Vals} \cup {NoNum}

\* currency codes of the proposal rows compared against an rfp of currency c
\* (Proposal.currency TEXT, nullable): none, USD, and a code that is not USD;
\* against the empty code, the empty code instead
ProposalCurrencies(c) ==
  IF c = "" THEN {NULL, "USD", ""} ELSE {NULL, "USD", "usd"}

\* currency codes an rfp row may hold (Rfp.currency TEXT, nullable)
RfpCurrencies == {NULL, "", "USD"}

\* JavaScript truthiness of a string | null
Truthy(s) == s # NULL /\ s # ""

\* a ?? b
Coalesce(a, b) == IF a # NULL THEN a ELSE b

-----------------------------------------------------------------------------
(* Exact arithmetic on the scores *)

NaN == <<0, 0>>

Abs(n) == IF n < 0 THEN -n ELSE n

RECURSIVE GCD(_, _)
GCD(a, b) == IF b = 0 THEN a ELSE GCD(b, a % b)

\* the number n / d (JavaScript "/" on two finite numbers)
Reduce(n, d, g) ==
  IF d < 0 THEN <<(-n) \div g, (-d) \div g>> ELSE <<n \div g, d \div g>>

Div(n, d) == IF d = 0 THEN NaN ELSE Reduce(n, d, GCD(Abs(n), Abs(d)))

Num(n) == <<n, 1>>

Add(a, b) == Div(a[1] * b[2] + b[1] * a[2], a[2] * b[2])

Sub(a, b) == Div(a[1] * b[2] - b[1] * a[2], a[2] * b[2])

Mul(a, b) == Div(a[1] * b[1], a[2] * b[2])

\* sign of a number: -1, 0, 1 (0 for NaN, as Array.prototype.sort reads NaN)
Sign(a) == IF a[1] > 0 THEN 1 ELSE IF a[1] < 0 THEN -1 ELSE 0

Leq(a, b) == a[1] * b[2] <= b[1] * a[2]

One == Num(1)
\* a neutral score of 0: a missing value counts as the worst
NeutralIsWorst == Num(0)

Half == Div(1, 2)

-----------------------------------------------------------------------------
(* Array helpers *)

Range(s) == {s[i] : i \in DOMAIN s}

\* Math.min(...xs), Math.max(...xs): Infinity, -Infinity on an empty array
MathMin(xs) ==
  IF xs = <<>> THEN "Infinity"
  ELSE CHOOSE m \in Range(xs) : \A x \in Range(xs) : m <= x

MathMax(xs) ==
  IF xs = <<>> THEN "-Infinity"
  ELSE CHOOSE m \in Range(xs) : \A x \in Range(xs) : m >= x

\* xs.map(f).filter(v => v !== null) for a field f of the proposals
NonNull(ps, f) ==
  LET vs == [i \in DOMAIN ps |-> ps[i][f]]
      keep(v) == v # NoNum
      kept == SelectSeq(vs, keep)
  IN  [i \in DOMAIN kept |-> ValOf(kept[i])]

-----------------------------------------------------------------------------
(* compareProposalsForRfp *)

\* EmptyResult with the weights of the scoring
EmptyWithScoringWeights(r) ==
  [rfpId |-> r.id,
   rfpTitle |-> r.title,
   currency |-> Coalesce(r.currency, NULL),
   criteriaWeights |-> [price |-> Div(45, 100), delivery |-> Div(35, 100),
                        warranty |-> Div(20, 100)],
   proposals |-> <<>>,
   bestProposalId |-> NULL]


\* the result for an empty proposals array
EmptyResult(r) ==
  [rfpId |-> r.id,
   rfpTitle |-> r.title,
   currency |-> Coalesce(r.currency, NULL),
   criteriaWeights |-> [price |-> Div(60, 100), delivery |-> Div(25, 100),
                        warranty |-> Div(15, 100)],
   proposals |-> <<>>,
   bestProposalId |-> NULL]

\* the weights the totals are computed with
weights == [price |-> Div(45, 100), delivery |-> Div(35, 100),
            warranty |-> Div(20, 100)]

\* Filtered with rows of unknown currency taken for rows of the rfp's currency
FilteredKeepNull(r, ps) ==
  LET match(p) == p.currency = r.currency \/ p.currency = NULL
  IN  IF Truthy(r.currency) THEN SelectSeq(ps, match) ELSE ps

\* Filtered without the test that rfp.currency is set
FilteredAlways(r, ps) ==
  LET match(p) == p.currency = r.currency
  IN  SelectSeq(ps, match)

\* rfp.currency ? proposals.filter(p => p.currency === rfp.currency) : proposals
Filtered(r, ps) ==
  LET match(p) == p.currency = r.currency
  IN  IF Truthy(r.currency) THEN SelectSeq(ps, match) ELSE ps

\* OrAll without the fallback to the whole array
NoFallback(filtered, ps) == filtered

\* filtered.length > 0 ? filtered : proposals
OrAll(filtered, ps) == IF Len(filtered) > 0 THEN filtered ELSE ps

\* EffectiveProposals with the currency filter left out
IgnoreFilter(r, ps) == ps

EffectiveProposals(r, ps) == OrAll(Filtered(r, ps), ps)

\* the non-null values of each criterion in the scored population
Prices(eff) == NonNull(eff, "totalPrice")

Deliveries(eff) == NonNull(eff, "deliveryDays")

Warranties(eff) == NonNull(eff, "warrantyMonths")

\* minPrice, maxPrice: Math.min(...prices), Math.max(...prices)
PriceRange(prices) ==
  [length |-> Len(prices), min |-> MathMin(prices), max |-> MathMax(prices)]

\* minDelivery, maxDelivery, minWarranty, maxWarranty: null on an empty array
RangeOrNull(vs) ==
  [min |-> IF Len(vs) > 0 THEN Some(MathMin(vs)) ELSE NoNum,
   max |-> IF Len(vs) > 0 THEN Some(MathMax(vs)) ELSE NoNum]

\* Lower normalised by the largest value instead of the range
LowerByMax(v, min, max) == IF max = min THEN One ELSE Div(max - v, max)

\* Lower without the branch for max = min: divides by zero
LowerDividing(v, min, max) == Div(max - v, max - min)

\* (max - v) / (max - min), 1 when all values are the same
Lower(v, min, max) == IF max = min THEN One ELSE Div(max - v, max - min)

\* Higher with the numerator of Lower: the shortest warranty scores 1
HigherAsLower(v, min, max) ==
  IF max = min THEN One ELSE Div(max - v, max - min)

\* (v - min) / (max - min), 1 when all values are the same
Higher(v, min, max) == IF max = min THEN One ELSE Div(v - min, max - min)

\* PriceScore that gives a missing price 0 instead of 0.5
PriceScoreMissingZero(p, price) ==
  IF p.totalPrice # NoNum /\ price.length > 0
  THEN Lower(ValOf(p.totalPrice), price.min, price.max)
  ELSE Num(0)

\* price: lower is better (missing = neutral 0.5)
PriceScore(p, price) ==
  IF p.totalPrice # NoNum /\ price.length > 0
  THEN Lower(ValOf(p.totalPrice), price.min, price.max)
  ELSE Half

\* DeliveryScore with the formula of the warranty: longer is better
DeliveryHigherIsBetter(p, delivery) ==
  IF p.deliveryDays # NoNum /\ delivery.min # NoNum /\ delivery.max # NoNum
  THEN Higher(ValOf(p.deliveryDays), ValOf(delivery.min), ValOf(delivery.max))
  ELSE Half

\* delivery: lower is better (missing = neutral 0.5)
DeliveryScore(p, delivery) ==
  IF p.deliveryDays # NoNum /\ delivery.min # NoNum /\ delivery.max # NoNum
  THEN Lower(ValOf(p.deliveryDays), ValOf(delivery.min), ValOf(delivery.max))
  ELSE Half

\* warranty: higher is better (missing = neutral 0.5)
WarrantyScore(p, warranty) ==
  IF p.warrantyMonths # NoNum /\ warranty.min # NoNum /\ warranty.max # NoNum
  THEN Higher(ValOf(p.warrantyMonths), ValOf(warranty.min),
              ValOf(warranty.max))
  ELSE Half

\* TotalScore with the weights of the empty result: 0.6, 0.25, 0.15
TotalWithEmptyWeights(priceScore, deliveryScore, warrantyScore) ==
  Add(Add(Mul(priceScore, Div(60, 100)), Mul(deliveryScore, Div(25, 100))),
      Mul(warrantyScore, Div(15, 100)))

\* priceScore * 0.45 + deliveryScore * 0.35 + warrantyScore * 0.20, as one
\* fraction over the common denominator
TotalScore(priceScore, deliveryScore, warrantyScore) ==
  Div(  priceScore[1] * weights.price[1] * deliveryScore[2]
          * weights.delivery[2] * warrantyScore[2] * weights.warranty[2]
      + deliveryScore[1] * weights.delivery[1] * priceScore[2]
          * weights.price[2] * warrantyScore[2] * weights.warranty[2]
      + warrantyScore[1] * weights.warranty[1] * priceScore[2]
          * weights.price[2] * deliveryScore[2] * weights.delivery[2],
      priceScore[2] * weights.price[2] * deliveryScore[2]
        * weights.delivery[2] * warrantyScore[2] * weights.warranty[2])

\* WithScores without the spread of p
OnlyIdAndScores(p, scores) == [id |-> p.id, scores |-> scores]

\* { ...p, scores: {...} }
WithScores(p, scores) ==
  [f \in DOMAIN p \cup {"scores"} |->
     IF f = "scores" THEN scores ELSE p[f]]

Scored(p, priceScore, deliveryScore, warrantyScore) ==
  WithScores(p, [priceScore |-> priceScore,
                 deliveryScore |-> deliveryScore,
                 warrantyScore |-> warrantyScore,
                 totalScore |-> TotalScore(priceScore, deliveryScore,
                                           warrantyScore)])

\* the callback of effectiveProposals.map
ScoreProposal(p, price, delivery, warranty) ==
  Scored(p, PriceScore(p, price), DeliveryScore(p, delivery),
         WarrantyScore(p, warranty))

ScoreWith(eff, price, delivery, warranty) ==
  [i \in DOMAIN eff |-> ScoreProposal(eff[i], price, delivery, warranty)]

\* ScoreOver with the delivery range taken from the prices
DeliveryRangeFromPrices(eff, pop) ==
  ScoreWith(eff, PriceRange(Prices(pop)), RangeOrNull(Prices(pop)),
            RangeOrNull(Warranties(pop)))

\* the scored array before the sort; the ranges are those of pop
ScoreOver(eff, pop) ==
  ScoreWith(eff, PriceRange(Prices(pop)), RangeOrNull(Deliveries(pop)),
            RangeOrNull(Warranties(pop)))

ScoreAll(eff) == ScoreOver(eff, eff)

\* CompareFn with the operands swapped: ascending
Ascending(a, b) == Sign(Sub(a.scores.totalScore, b.scores.totalScore))

\* the comparator of the ranking sort: (a, b) => b.total - a.total
CompareFn(a, b) == Sign(Sub(b.scores.totalScore, a.scores.totalScore))

\* Insert that puts x before the elements it ties with: an unstable sort
RECURSIVE InsertBeforeEqual(_, _)
InsertBeforeEqual(sorted, x) ==
  IF sorted = <<>> THEN <<x>>
  ELSE IF CompareFn(Head(sorted), x) >= 0 THEN <<x>> \o sorted
       ELSE <<Head(sorted)>> \o InsertBeforeEqual(Tail(sorted), x)

\* insert x behind every element that does not have to follow it
RECURSIVE Insert(_, _)
Insert(sorted, x) ==
  IF sorted = <<>> THEN <<x>>
  ELSE IF CompareFn(Head(sorted), x) > 0 THEN <<x>> \o sorted
       ELSE <<Head(sorted)>> \o Insert(Tail(sorted), x)

\* Array.prototype.sort with CompareFn (stable, ES2019)
RECURSIVE SortFrom(_, _)
SortFrom(sorted, rest) ==
  IF rest = <<>> THEN sorted
  ELSE SortFrom(Insert(sorted, Head(rest)), Tail(rest))

Sort(scored) == SortFrom(<<>>, scored)

\* scored[0]?.id ?? null
BestProposalId(scored) == IF Len(scored) > 0 THEN scored[1].id ELSE NULL

\* the returned object
Result(r, w, scored) ==
  [rfpId |-> r.id,
   rfpTitle |-> r.title,
   currency |-> Coalesce(r.currency, NULL),
   criteriaWeights |-> w,
   proposals |-> scored,
   bestProposalId |-> BestProposalId(scored)]

\* ScoredResult with min and max taken over the whole array
RangesOverAll(r, ps) ==
  Result(r, weights, Sort(ScoreOver(EffectiveProposals(r, ps), ps)))

ScoredResult(r, ps) ==
  Result(r, weights, Sort(ScoreAll(EffectiveProposals(r, ps))))

\* the array effectiveProposals names: the caller's array, unless the filter
\* ran and its copy is not empty
EffectiveArray(r, ps) ==
  IF Truthy(r.currency) /\ Len(Filtered(r, ps)) > 0
  THEN "filtered" ELSE "proposals"

\* a sort of effectiveProposals instead of scored
SortsEffective(r, ps) == EffectiveArray(r, ps)

\* the array the ranking sort reorders in place: scored, which map allocated
SortedArray(r, ps) == "scored"

StripScores(q) == [f \in DOMAIN q \ {"scores"} |-> q[f]]

\* the caller's array when the call returns: sort reorders its receiver, and
\* the map callback writes to the copies { ...p } only
ProposalsAfterCall(r, ps) ==
  IF SortedArray(r, ps) = "proposals"
  THEN [j \in DOMAIN ps |-> StripScores(Sort(ScoreAll(ps))[j])]
  ELSE ps

-----
(* Inputs *)

IdOf(i) == "p" \o ToString(i)

MkProposal(i, a) ==
  [id |-> IdOf(i), currency |-> a.currency, totalPrice |-> a.totalPrice,
   deliveryDays |-> a.deliveryDays, warrantyMonths |-> a.warrantyMonths]

\* offers that state a price only, in any currency
AttrsPriced(c) ==
  [currency : ProposalCurrencies(c), totalPrice : OptVals,
   deliveryDays : {NoNum}, warrantyMonths : {NoNum}]

Criteria == {"totalPrice", "deliveryDays", "warrantyMonths"}

\* offers in USD that state every criterion, but for criterion f which they
\* may leave out
AttrsOptional(f) ==
  [currency : {"USD"},
   totalPrice :
     {Some(0), Some(MaxVal)} \cup IF f = "totalPrice" THEN {NoNum} ELSE {},
   deliveryDays :
     {Some(0), Some(MaxVal)} \cup IF f = "deliveryDays" THEN {NoNum} ELSE {},
   warrantyMonths :
     {Some(0), Some(MaxVal)} \cup IF f = "warrantyMonths" THEN {NoNum} ELSE {}]

\* a proposals array of n rows over the offers a[1] .. a[n]
MkProposals(n, a) == [i \in 1..n |-> MkProposal(i, a[i])]

MkRfp(c) == [id |-> "rfp1", title |-> "Laptops", currency |-> c]

NoResult == [rfpId |-> NULL]

-----------------------------------------------------------------------------
(* The state machine: one call of compareProposalsForRfp on chosen inputs *)

\* empty tables and no request
NoMail ==
  /\ emailMessages = {}
  /\ storedProposals = {}
  /\ requests = <<>>
  /\ extractions = {}

Init ==
  /\ NoMail
  /\ \/ \E c \in RfpCurrencies :
          /\ rfp = MkRfp(c)
          /\ \E n \in 0..MaxProposals : \E a \in [1..n -> AttrsPriced(c)] :
                proposals = MkProposals(n, a)
     \/ /\ rfp = MkRfp("USD")
        /\ \E f \in Criteria :
             \E n \in 0..MaxProposals : \E a \in [1..n -> AttrsOptional(f)] :
               proposals = MkProposals(n, a)
  /\ pc = "call"
  /\ result = NoResult

\* lines 53-62: early return on an empty array
CompareEmpty ==
  /\ pc = "call"
  /\ Len(proposals) = 0
  /\ result' = EmptyResult(rfp)
  /\ pc' = "done"
  /\ UNCHANGED <<rfp, proposals>>
  /\ UNCHANGED mailVars

\* CompareScored with prices.reduce((a, b) => Math.min(a, b)) for minPrice:
\* reduce of an empty array without an initial value throws a TypeError
CompareScoredReducing ==
  /\ pc = "call"
  /\ Len(proposals) # 0
  /\ IF Len(Prices(EffectiveProposals(rfp, proposals))) = 0
     THEN pc' = "threw" /\ result' = result
     ELSE result' = ScoredResult(rfp, proposals) /\ pc' = "done"
  /\ UNCHANGED <<rfp, proposals>>
  /\ UNCHANGED mailVars

\* lines 64-155: filter, score, sort, return
CompareScored ==
  /\ pc = "call"
  /\ Len(proposals) # 0
  /\ result' = ScoredResult(rfp, proposals)
  /\ pc' = "done"
  /\ rfp' = rfp
  /\ proposals' = ProposalsAfterCall(rfp, proposals)
  /\ UNCHANGED mailVars

Next == CompareEmpty \/ CompareScored

Spec == Init /\ [][Next]_vars

-----------------------------------------------------------------------------
(* The mail intake: POST /webhooks/email and                               *)
(* POST /rfps/:rfpId/proposals/from-text                                   *)
(*                                                                         *)
(* Strings that the handlers take apart are sequences of tokens: a sender  *)
(* is <<"Acme", "<", "ACME@X.COM", ">">> or <<"acme@x.com">>, a subject is *)
(* <<"Offer", "RFPID:", "rfp1">>, and <<>> is a string that is null or    *)
(* empty.  The Vendor and Rfp tables do not change, so the lookups of the  *)
(* validation are one step with the arrival of the request; from the first *)
(* write on, each await of a handler is a step of its own, so that         *)
(* requests interleave where the event loop lets them.  Any write may fail *)
(* and the extraction may throw: the catch block answers 500.              *)

\* most requests received in one behaviour
MaxRequests == 3

\* String.prototype.toLowerCase on the tokens in use
ToLowerCase(t) ==
  CASE t = "ACME@X.COM" -> "acme@x.com"
    [] t = "Laptops" -> "laptops"
    [] t = "LAPTOPS" -> "laptops"
    [] t = "Office" -> "office"
    [] t = "Chairs" -> "chairs"
    [] t = "RFP:" -> "rfp:"
    [] t = "RFPID:" -> "rfpid:"
    [] OTHER -> t

LowerAll(ts) == [i \in DOMAIN ts |-> ToLowerCase(ts[i])]

\* extractEmailAddress: the part between < and > if there is one, else the
\* whole, trimmed and in lower case; null for a missing or empty sender
extractEmailAddress(raw) ==
  IF raw = <<>> THEN NULL
  ELSE IF \E i \in 1..(Len(raw) - 2) : raw[i] = "<" /\ raw[i + 2] = ">"
       THEN LET i == CHOOSE k \in 1..(Len(raw) - 2) :
                       /\ raw[k] = "<" /\ raw[k + 2] = ">"
                       /\ \A h \in 1..(k - 1) :
                            ~(raw[h] = "<" /\ raw[h + 2] = ">")
            IN  ToLowerCase(raw[i + 1])
       ELSE ToLowerCase(raw[1])

\* first place of the marker in the subject that something follows, or 0;
\* the markers match in any case ("i" flag)
MarkerAt(subject, marker) ==
  LET at == {i \in 1..(Len(subject) - 1) : ToLowerCase(subject[i]) = marker}
  IN  IF at = {} THEN 0 ELSE CHOOSE i \in at : \A k \in at : i <= k

\* extractRfpSelectorFromSubject: { rfpId } if RFPID:<id> occurs, else
\* { keyword } if RFP:<words> occurs, else {}
extractRfpSelectorFromSubject(subject) ==
  IF subject = <<>> THEN [rfpId |-> NULL, keyword |-> <<>>]
  ELSE IF MarkerAt(subject, "rfpid:") # 0
       THEN [rfpId |-> subject[MarkerAt(subject, "rfpid:") + 1],
             keyword |-> <<>>]
       ELSE IF MarkerAt(subject, "rfp:") # 0
            THEN [rfpId |-> NULL,
                  keyword |-> SubSeq(subject, MarkerAt(subject, "rfp:") + 1,
                                     Len(subject))]
            ELSE [rfpId |-> NULL, keyword |-> <<>>]

\* the rows of the Vendor and Rfp tables
Vendors == {[id |-> "v1", email |-> "acme@x.com"]}

Rfps == {[id |-> "rfp1", title |-> <<"Laptops", "Procurement">>,
          createdAt |-> 1],
         [id |-> "rfp2", title |-> <<"Office", "Laptops">>, createdAt |-> 2]}

\* prisma.vendor.findUnique({ where: { email } }), ({ where: { id } })
VendorByEmail(email) ==
  IF \E v \in Vendors : v.email = email
  THEN (CHOOSE v \in Vendors : v.email = email).id ELSE NULL

VendorById(id) == IF \E v \in Vendors : v.id = id THEN id ELSE NULL

\* prisma.rfp.findUnique({ where: { id } })
RfpById(id) == IF \E r \in Rfps : r.id = id THEN id ELSE NULL

\* title contains keyword, mode insensitive
Contains(title, keyword) ==
  \E i \in 1..(Len(title) - Len(keyword) + 1) :
    LowerAll(SubSeq(title, i, i + Len(keyword) - 1)) = LowerAll(keyword)

\* prisma.rfp.findFirst: the newest RFP whose title contains the keyword
RfpByKeyword(keyword) ==
  LET found == {r \in Rfps : Contains(r.title, keyword)}
  IN  IF found = {} THEN NULL
      ELSE (CHOOSE r \in found :
              \A o \in found : o.createdAt <= r.createdAt).id

\* what the validation of a request comes to: the response that rejects
\* it, or status 0 and the rows the handler goes on with
Rejected(status, error) ==
  [status |-> status, error |-> error, rfpId |-> NULL, vendorId |-> NULL]

Accepted(rfpId, vendorId) ==
  [status |-> 0, error |-> NULL, rfpId |-> rfpId, vendorId |-> vendorId]

\* webhooks.ts, the RFP the subject names
WebhookRfp(selector, vendorId) ==
  IF selector.rfpId # NULL
  THEN IF RfpById(selector.rfpId) = NULL
       THEN Rejected(404, "RFP not found for provided RFPID in subject")
       ELSE Accepted(RfpById(selector.rfpId), vendorId)
  ELSE IF selector.keyword # <<>>
       THEN IF RfpByKeyword(selector.keyword) = NULL
            THEN Rejected(404, "No RFP found matching keyword from subject")
            ELSE Accepted(RfpByKeyword(selector.keyword), vendorId)
       ELSE Rejected(400, "No RFP reference found in email subject")

\* webhooks.ts, from the payload to the last check before the first write
WebhookValidate(body) ==
  IF extractEmailAddress(body.from) = NULL \/ body.plain = NULL
  THEN Rejected(400, "Missing required 'from' or 'text' fields")
  ELSE IF VendorByEmail(extractEmailAddress(body.from)) = NULL
       THEN Rejected(400, "No vendor found with this 'from' email")
       ELSE WebhookRfp(extractRfpSelectorFromSubject(body.subject),
                       VendorByEmail(extractEmailAddress(body.from)))

\* proposals.ts, from the request to the last check before the first write
FromTextValidate(body) ==
  IF body.vendorId = NULL \/ body.text = NULL
  THEN Rejected(400, "vendorId and text are required")
  ELSE IF RfpById(body.rfpId) = NULL THEN Rejected(404, "RFP not found")
       ELSE IF VendorById(body.vendorId) = NULL
            THEN Rejected(404, "Vendor not found")
            ELSE Accepted(body.rfpId, body.vendorId)

\* the payloads CloudMailin posts: a good one with RFPID and a messageId, a
\* good one with a keyword and no messageId, and one for each rejection
GoodFrom == <<"Acme", "<", "ACME@X.COM", ">">>

ById ==
  [from |-> GoodFrom, subject |-> <<"Offer", "RFPID:", "rfp1">>,
   plain |-> "text", messageId |-> "m1"]

ByKeyword ==
  [from |-> <<"acme@x.com">>, subject |-> <<"Offer", "rfp:", "LAPTOPS">>,
   plain |-> "text", messageId |-> NULL]

WebhookBodies ==
  {ById, ByKeyword,
   [ById EXCEPT !.from = <<>>],
   [ById EXCEPT !.plain = NULL],
   [ById EXCEPT !.from = <<"eve@y.com">>],
   [ById EXCEPT !.subject = <<"RFPID:", "zzz", "RFP:", "Laptops">>],
   [ById EXCEPT !.subject = <<"Offer", "RFP:", "Chairs">>],
   [ById EXCEPT !.subject = <<"Offer">>]}

\* the bodies posted to from-text, emailMeta.messageId ?? null included: a
\* good one that carries the messageId of the mail, and one for each rejection
FromTextBodies ==
  {[rfpId |-> "rfp1", vendorId |-> "v1", text |-> "text", messageId |-> "m1"],
   [rfpId |-> "rfp1", vendorId |-> "v1", text |-> NULL, messageId |-> NULL],
   [rfpId |-> "zzz", vendorId |-> "v1", text |-> "text", messageId |-> NULL],
   [rfpId |-> "rfp1", vendorId |-> "v9", text |-> "text", messageId |-> NULL]}

\* a request after its validation: answered if rejected, else about to
\* create its EmailMessage
NewRequest(route, body, verdict) ==
  [route |-> route, body |-> body,
   at |-> IF verdict.status = 0 THEN "create" ELSE "done",
   status |-> verdict.status, error |-> verdict.error,
   rfpId |-> verdict.rfpId, vendorId |-> verdict.vendorId,
   emailId |-> NULL, failed |-> NULL]

\* the catch block: 500, whatever was written stays written
Caught(q, step) == [q EXCEPT !.at = "done", !.status = 500, !.failed = step]

EmailIdOf(i) == "e" \o ToString(i)

ProposalIdOf(i) == "q" \o ToString(i)

\* a messageId column without the unique index
NoUniqueIndex(table, messageId) == FALSE

\* EmailMessage_messageId_key: a row with this messageId exists (NULLs are
\* distinct from each other)
MessageIdTaken(table, messageId) ==
  messageId # NULL /\ \E e \in table : e.messageId = messageId

\* Proposal_emailId_key
EmailIdTaken(table, emailId) ==
  emailId # NULL /\ \E p \in table : p.emailId = emailId

\* an update without its where clause: every row gets the status
UpdateEveryRow(table, id, status) ==
  {[e EXCEPT !.status = status] : e \in table}

\* prisma.emailMessage.update({ where: { id }, data: { status } })
UpdateStatus(table, id, status) ==
  {IF e.id = id THEN [e EXCEPT !.status = status] ELSE e : e \in table}

\* status of the response to a request that went through
SuccessStatus(route) == IF route = "webhook" THEN 200 ELSE 201

\* a request arrives and is validated
Receive(route, body, verdict) ==
  /\ Len(requests) < MaxRequests
  /\ requests' = Append(requests, NewRequest(route, body, verdict))
  /\ UNCHANGED <<emailMessages, storedProposals, extractions>>
  /\ UNCHANGED compareVars

\* prisma.emailMessage.create with status PENDING
CreateEmail(i) ==
  /\ requests[i].at = "create"
  /\ \/ /\ ~MessageIdTaken(emailMessages, requests[i].body.messageId)
        /\ emailMessages' = emailMessages \cup
             {[id |-> EmailIdOf(i), messageId |-> requests[i].body.messageId,
               status |-> "PENDING"]}
        /\ requests' = [requests EXCEPT ![i].at = "extract",
                                        ![i].emailId = EmailIdOf(i)]
     \/ /\ requests' = [requests EXCEPT ![i] = Caught(@, "create")]
        /\ UNCHANGED emailMessages
  /\ UNCHANGED <<storedProposals, extractions>>
  /\ UNCHANGED compareVars

\* generateProposalFromText: returns the parsed proposal or throws
Extract(i) ==
  /\ requests[i].at = "extract"
  /\ extractions' = extractions \cup {i}
  /\ \/ requests' = [requests EXCEPT ![i].at = "save"]
     \/ requests' = [requests EXCEPT ![i] = Caught(@, "extract")]
  /\ UNCHANGED <<emailMessages, storedProposals>>
  /\ UNCHANGED compareVars

\* prisma.proposal.create with emailId: email.id
SaveProposal(i) ==
  /\ requests[i].at = "save"
  /\ \/ /\ ~EmailIdTaken(storedProposals, requests[i].emailId)
        /\ storedProposals' = storedProposals \cup
             {[id |-> ProposalIdOf(i), emailId |-> requests[i].emailId,
               rfpId |-> requests[i].rfpId,
               vendorId |-> requests[i].vendorId]}
        /\ requests' = [requests EXCEPT ![i].at = "mark"]
     \/ /\ requests' = [requests EXCEPT ![i] = Caught(@, "save")]
        /\ UNCHANGED storedProposals
  /\ UNCHANGED <<emailMessages, extractions>>
  /\ UNCHANGED compareVars

\* prisma.emailMessage.update to PARSED, then the response
MarkParsed(i) ==
  /\ requests[i].at = "mark"
  /\ \/ /\ emailMessages' =
             UpdateStatus(emailMessages, requests[i].emailId, "PARSED")
        /\ requests' = [requests EXCEPT
                          ![i].at = "done",
                          ![i].status = SuccessStatus(requests[i].route)]
     \/ /\ requests' = [requests EXCEPT ![i] = Caught(@, "mark")]
        /\ UNCHANGED emailMessages
  /\ UNCHANGED <<storedProposals, extractions>>
  /\ UNCHANGED compareVars

\* the requests of a route
Of(route) == {i \in DOMAIN requests : requests[i].route = route}

\* WebhookReceive that stores the mail before it validates it
WebhookStoresFirst ==
  /\ Len(requests) < MaxRequests
  /\ \E body \in WebhookBodies :
       /\ requests' = Append(requests,
                             NewRequest("webhook", body, WebhookValidate(body)))
       /\ emailMessages' = emailMessages \cup
            {[id |-> EmailIdOf(Len(requests) + 1), messageId |-> NULL,
              status |-> "PENDING"]}
  /\ UNCHANGED <<storedProposals, extractions>>
  /\ UNCHANGED compareVars

\* POST /webhooks/email
WebhookReceive ==
  \E body \in WebhookBodies : Receive("webhook", body, WebhookValidate(body))

WebhookCreateEmail == \E i \in Of("webhook") : CreateEmail(i)

WebhookExtract == \E i \in Of("webhook") : Extract(i)

WebhookSaveProposal == \E i \in Of("webhook") : SaveProposal(i)

WebhookMarkParsed == \E i \in Of("webhook") : MarkParsed(i)

\* POST /rfps/:rfpId/proposals/from-text
FromTextReceive ==
  \E body \in FromTextBodies :
    Receive("from-text", body, FromTextValidate(body))

FromTextCreateEmail == \E i \in Of("from-text") : CreateEmail(i)

FromTextExtract == \E i \in Of("from-text") : Extract(i)

FromTextSaveProposal == \E i \in Of("from-text") : SaveProposal(i)

FromTextMarkParsed == \E i \in Of("from-text") : MarkParsed(i)

\* no comparison is under way
MailInit ==
  /\ NoMail
  /\ rfp = MkRfp(NULL)
  /\ proposals = <<>>
  /\ pc = "done"
  /\ result = EmptyResult(MkRfp(NULL))

MailNext ==
  \/ WebhookReceive
  \/ WebhookCreateEmail
  \/ WebhookExtract
  \/ WebhookSaveProposal
  \/ WebhookMarkParsed
  \/ FromTextReceive
  \/ FromTextCreateEmail
  \/ FromTextExtract
  \/ FromTextSaveProposal
  \/ FromTextMarkParsed

MailSpec == MailInit /\ [][MailNext]_vars

-----------------------------------------------------------------------------
(* Vocabulary of the properties *)

Done == pc = "done"

\* the returned proposals
Out == result.proposals

OutIds == {Out[j].id : j \in DOMAIN Out}

IdsOf(I) == {proposals[i].id : i \in I}

\* position of a proposal in the input array
PosOf(id) == CHOOSE i \in DOMAIN proposals : proposals[i].id = id

\* rfp.currency is set: it holds a currency code
CurrencySet == rfp.currency # NULL /\ rfp.currency # ""

\* positions of the input proposals whose currency equals rfp.currency
Matching == {i \in DOMAIN proposals : proposals[i].currency = rfp.currency}

\* positions of the scored population
Population ==
  IF CurrencySet /\ Matching # {} THEN Matching ELSE DOMAIN proposals

\* a score is a number of [0, 1]
InUnit(x) == x[2] > 0 /\ 0 <= x[1] /\ x[1] <= x[2]

Total(j) == Out[j].scores.totalScore

\* the non-null values of criterion f in the scored population
PopValues(f) ==
  {ValOf(proposals[i][f]) : i \in {k \in Population : proposals[k][f] # NoNum}}

SetMin(S) == CHOOSE m \in S : \A x \in S : m <= x

SetMax(S) == CHOOSE m \in S : \A x \in S : m >= x

\* score x of value v is (max - v) / (max - min) over the values S
IsLowerScore(x, v, S) ==
  /\ x[2] > 0
  /\ x[1] * (SetMax(S) - SetMin(S)) = (SetMax(S) - v) * x[2]
  /\ (v = SetMin(S) => x = <<1, 1>>)
  /\ (v = SetMax(S) => x = <<0, 1>>)

-----------------------------------------------------------------------------
(* Properties *)

\* C1: for a non-empty input the call returns as many proposals as survive
\* the currency filter, or as many as the input holds when none survives,
\* and bestProposalId is the id of one of the returned proposals.
C1_CountAndBest ==
  (Done /\ Len(proposals) > 0) =>
    /\ Len(Out) = Cardinality(Population)
    /\ result.bestProposalId # NULL
    /\ \E j \in DOMAIN Out : Out[j].id = result.bestProposalId

C1_Witness ==
  /\ Done /\ CurrencySet
  /\ Len(proposals) = 3 /\ Cardinality(Matching) = 2 /\ Len(Out) = 2

\* C2: the returned list is a permutation of a subset of the input: every
\* element is an input proposal with its fields unchanged plus scores, none
\* appears twice, and one is missing only by the currency-mismatch rule.
C2_PermutationOfSubset ==
  Done =>
    /\ \A j \in DOMAIN Out : \E i \in DOMAIN proposals :
          /\ DOMAIN Out[j] = DOMAIN proposals[i] \cup {"scores"}
          /\ \A f \in DOMAIN proposals[i] : Out[j][f] = proposals[i][f]
    /\ \A j, k \in DOMAIN Out : j # k => Out[j].id # Out[k].id
    /\ \A i \in DOMAIN proposals :
          proposals[i].id \notin OutIds =>
            /\ CurrencySet /\ Matching # {}
            /\ proposals[i].currency # rfp.currency

C2_Witness ==
  /\ Done /\ Len(Out) = 2 /\ Len(proposals) = 3
  /\ PosOf(Out[1].id) > PosOf(Out[2].id)

\* C3: every priceScore, deliveryScore, warrantyScore and totalScore
\* returned lies in [0, 1], negative input values included.
C3_ScoresInUnitInterval ==
  Done =>
    \A j \in DOMAIN Out :
      /\ InUnit(Out[j].scores.priceScore)
      /\ InUnit(Out[j].scores.deliveryScore)
      /\ InUnit(Out[j].scores.warrantyScore)
      /\ InUnit(Out[j].scores.totalScore)

C3_Witness ==
  /\ Done
  /\ \E j \in DOMAIN Out : Out[j].totalPrice = Some(-1)
  /\ \E j \in DOMAIN Out :
        Out[j].scores.priceScore \notin {<<0, 1>>, <<1, 2>>, <<1, 1>>}

\* C4: the returned proposals are in descending order of totalScore,
\* bestProposalId is the id of the first one, and no returned proposal has
\* a totalScore above the best one's.
C4_SortedDescending ==
  Done =>
    /\ \A j \in 1..(Len(Out) - 1) : Leq(Total(j + 1), Total(j))
    /\ Len(Out) > 0 => result.bestProposalId = Out[1].id
    /\ \A j, k \in DOMAIN Out :
          Out[k].id = result.bestProposalId => Leq(Total(j), Total(k))

C4_Witness ==
  /\ Done /\ Len(Out) = 3
  /\ ~Leq(Total(1), Total(2)) /\ ~Leq(Total(2), Total(3))
  /\ PosOf(Out[1].id) = 3 /\ PosOf(Out[3].id) = 1

\* C5: proposals with equal totalScore keep their input order; when all
\* totals tie the output is the scored population in input order and
\* bestProposalId is its first proposal.
C5_StableTies ==
  Done =>
    /\ \A j, k \in DOMAIN Out :
          (j < k /\ Total(j) = Total(k)) =>
            PosOf(Out[j].id) < PosOf(Out[k].id)
    /\ (\A j, k \in DOMAIN Out : Total(j) = Total(k)) =>
          /\ \A j \in DOMAIN Out :
                /\ PosOf(Out[j].id) \in Population
                /\ Cardinality({i \in Population : i <= PosOf(Out[j].id)}) = j
          /\ Len(Out) > 0 =>
                result.bestProposalId = proposals[SetMin(Population)].id

C5_Witness ==
  /\ Done /\ Len(Out) = 3
  /\ Out[2].scores = Out[3].scores /\ Total(1) # Total(2)
  /\ PosOf(Out[1].id) = 2 /\ PosOf(Out[2].id) = 1 /\ PosOf(Out[3].id) = 3

\* C6: when rfp.currency is set and no input proposal has that currency,
\* every input proposal is scored and returned; a non-empty input never
\* gives an empty list.
C6_FallbackWhenNoMatch ==
  /\ (Done /\ CurrencySet /\ Matching = {}) =>
        /\ OutIds = IdsOf(DOMAIN proposals)
        /\ Len(Out) = Len(proposals)
        /\ \A j \in DOMAIN Out : "scores" \in DOMAIN Out[j]
  /\ (Done /\ Len(proposals) > 0) => Len(Out) > 0

C6_Witness ==
  /\ Done /\ CurrencySet /\ Matching = {}
  /\ Len(proposals) >= 2 /\ Len(Out) = Len(proposals)
  /\ \E i \in DOMAIN proposals : proposals[i].currency # NULL

\* C7: when rfp.currency is set and some input proposal has exactly that
\* currency, the returned proposals are exactly those with that currency
\* (case-sensitive); the others, a null currency included, are absent.
C7_OnlyMatchingReturned ==
  (Done /\ CurrencySet /\ Matching # {}) =>
    /\ OutIds = IdsOf(Matching)
    /\ Len(Out) = Cardinality(Matching)
    /\ \A j \in DOMAIN Out : Out[j].currency = rfp.currency

C7_Witness ==
  /\ Done /\ rfp.currency = "USD" /\ Matching # {}
  /\ \E i \in DOMAIN proposals :
        proposals[i].currency = NULL /\ proposals[i].id \notin OutIds
  /\ \E i \in DOMAIN proposals :
        proposals[i].currency = "usd" /\ proposals[i].id \notin OutIds

\* C8: when rfp.currency is unset every input proposal is scored and
\* returned, whatever its own currency is.
C8_UnsetCurrencyScoresAll ==
  (Done /\ ~CurrencySet) =>
    /\ OutIds = IdsOf(DOMAIN proposals)
    /\ Len(Out) = Len(proposals)
    /\ \A j \in DOMAIN Out : "scores" \in DOMAIN Out[j]

C8_Witness ==
  /\ Done /\ rfp.currency = NULL /\ Len(Out) = 3
  /\ {proposals[i].currency : i \in DOMAIN proposals} = {NULL, "USD", "usd"}

\* C9: for an empty input the result holds no proposal, bestProposalId is
\* null, the weights are the display default 0.60, 0.25, 0.15 (not the
\* scoring weights) and rfpId, rfpTitle and currency are the rfp's.
C9_EmptyInput ==
  (Done /\ Len(proposals) = 0) =>
    /\ result = [rfpId |-> rfp.id,
                 rfpTitle |-> rfp.title,
                 currency |-> rfp.currency,
                 criteriaWeights |-> [price |-> <<3, 5>>, delivery |-> <<1, 4>>,
                                      warranty |-> <<3, 20>>],
                 proposals |-> <<>>,
                 bestProposalId |-> NULL]
    /\ result.criteriaWeights # weights

C9_Witness == Done /\ Len(proposals) = 0 /\ rfp.currency = "USD"

\* C10: a scored proposal with a price v gets (max - v) / (max - min) when
\* max # min, min and max being those of the prices of the scored
\* population only: the lowest price gets 1 and the highest 0; the same
\* holds of delivery, and equal values give equal price and delivery scores.
C10_LowerIsBetter ==
  Done =>
    /\ \A j \in DOMAIN Out :
          /\ (Out[j].totalPrice # NoNum
                /\ Cardinality(PopValues("totalPrice")) > 1) =>
               IsLowerScore(Out[j].scores.priceScore, ValOf(Out[j].totalPrice),
                            PopValues("totalPrice"))
          /\ (Out[j].deliveryDays # NoNum
                /\ Cardinality(PopValues("deliveryDays")) > 1) =>
               IsLowerScore(Out[j].scores.deliveryScore,
                            ValOf(Out[j].deliveryDays),
                            PopValues("deliveryDays"))
    /\ (\A i \in Population :
           proposals[i].totalPrice = proposals[i].deliveryDays) =>
          \A j \in DOMAIN Out :
            Out[j].scores.priceScore = Out[j].scores.deliveryScore

C10_Witness ==
  /\ Done /\ CurrencySet /\ Cardinality(Matching) = 2
  /\ Cardinality(PopValues("totalPrice")) = 2
  /\ \E i \in DOMAIN proposals \ Matching :
        /\ proposals[i].totalPrice # NoNum
        /\ ValOf(proposals[i].totalPrice) < SetMin(PopValues("totalPrice"))
  /\ \E j \in DOMAIN Out : Out[j].scores.priceScore = <<1, 1>>

\* the score of a value v among the values S of a higher-is-better criterion
IsHigherScore(x, v, S) ==
  /\ x[2] > 0
  /\ x[1] * (SetMax(S) - SetMin(S)) = (v - SetMin(S)) * x[2]
  /\ (v = SetMax(S) => x = <<1, 1>>)
  /\ (v = SetMin(S) => x = <<0, 1>>)

\* C11: a scored proposal with a warranty w gets (w - min) / (max - min)
\* when max # min, min and max being those of the warranties of the scored
\* population: the longest warranty gets 1 and the shortest 0.
C11_HigherIsBetter ==
  Done =>
    \A j \in DOMAIN Out :
      (Out[j].warrantyMonths # NoNum
         /\ Cardinality(PopValues("warrantyMonths")) > 1) =>
        IsHigherScore(Out[j].scores.warrantyScore,
                      ValOf(Out[j].warrantyMonths),
                      PopValues("warrantyMonths"))

C11_Witness ==
  /\ Done /\ Cardinality(PopValues("warrantyMonths")) = 2
  /\ \E j, k \in DOMAIN Out :
        /\ Out[j].warrantyMonths = Some(MaxVal)
        /\ Out[j].scores.warrantyScore = <<1, 1>>
        /\ Out[k].warrantyMonths = Some(0)
        /\ Out[k].scores.warrantyScore = <<0, 1>>

\* the score a returned proposal holds for a criterion
ScoreOf(q, f) ==
  CASE f = "totalPrice" -> q.scores.priceScore
    [] f = "deliveryDays" -> q.scores.deliveryScore
    [] f = "warrantyMonths" -> q.scores.warrantyScore

\* C12: for each criterion, a scored proposal without a value gets exactly
\* 0.5, whether or not other proposals have one; when no proposal of the
\* population has a value, every proposal gets 0.5.
C12_MissingIsNeutral ==
  Done =>
    \A f \in Criteria :
      /\ \A j \in DOMAIN Out :
            Out[j][f] = NoNum => ScoreOf(Out[j], f) = <<1, 2>>
      /\ PopValues(f) = {} =>
            \A j \in DOMAIN Out : ScoreOf(Out[j], f) = <<1, 2>>

C12_Witness ==
  /\ Done
  /\ \E j, k \in DOMAIN Out :
        /\ Out[j].totalPrice = NoNum
        /\ Out[j].scores.priceScore = <<1, 2>>
        /\ Out[k].totalPrice # NoNum
        /\ Out[k].scores.priceScore = <<1, 1>>

\* C13: for each criterion, when all the values of the scored population
\* are the same (one value only included), every proposal that has a value
\* gets 1, neither 0.5 nor the result of a division by zero.
C13_IdenticalValuesScoreOne ==
  Done =>
    \A f \in Criteria :
      Cardinality(PopValues(f)) = 1 =>
        \A j \in DOMAIN Out :
          Out[j][f] # NoNum => ScoreOf(Out[j], f) = <<1, 1>>

C13_Witness ==
  /\ Done /\ Len(Out) = 3
  /\ Cardinality(PopValues("deliveryDays")) = 1
  /\ Cardinality({j \in DOMAIN Out : Out[j].deliveryDays # NoNum}) = 2
  /\ \A j \in DOMAIN Out :
        Out[j].deliveryDays # NoNum => Out[j].scores.deliveryScore = <<1, 1>>

\* C14: totalScore is priceScore * 0.45 + deliveryScore * 0.35 +
\* warrantyScore * 0.20, and for a non-empty input the returned
\* criteriaWeights are 0.45, 0.35 and 0.20, which sum to 1.
C14_WeightedTotal ==
  (Done /\ Len(proposals) > 0) =>
    /\ result.criteriaWeights =
         [price |-> <<9, 20>>, delivery |-> <<7, 20>>, warranty |-> <<1, 5>>]
    /\ Add(Add(result.criteriaWeights.price, result.criteriaWeights.delivery),
           result.criteriaWeights.warranty) = <<1, 1>>
    /\ \A j \in DOMAIN Out :
          Out[j].scores.totalScore =
            Add(Add(Mul(Out[j].scores.priceScore, <<9, 20>>),
                    Mul(Out[j].scores.deliveryScore, <<7, 20>>)),
                Mul(Out[j].scores.warrantyScore, <<1, 5>>))

C14_Witness ==
  /\ Done
  /\ \E j \in DOMAIN Out :
        /\ Out[j].scores.priceScore = <<1, 1>>
        /\ Out[j].scores.deliveryScore = <<0, 1>>
        /\ Out[j].scores.warrantyScore = <<1, 2>>
        /\ Out[j].scores.totalScore = <<11, 20>>

\* proposal a is at least as good as b on every criterion, both having all
\* three values, and better on one
Dominates(a, b) ==
  /\ \A f \in Criteria : a[f] # NoNum /\ b[f] # NoNum
  /\ ValOf(a.totalPrice) <= ValOf(b.totalPrice)
  /\ ValOf(a.deliveryDays) <= ValOf(b.deliveryDays)
  /\ ValOf(a.warrantyMonths) >= ValOf(b.warrantyMonths)
  /\ \/ ValOf(a.totalPrice) < ValOf(b.totalPrice)
     \/ ValOf(a.deliveryDays) < ValOf(b.deliveryDays)
     \/ ValOf(a.warrantyMonths) > ValOf(b.warrantyMonths)

Returned ==
  /\ Done
  /\ DOMAIN result = {"rfpId", "rfpTitle", "currency", "criteriaWeights",
                      "proposals", "bestProposalId"}
  /\ result.rfpId = rfp.id
  /\ \A j \in DOMAIN Out :
       DOMAIN Out[j].scores = {"priceScore", "deliveryScore",
                               "warrantyScore", "totalScore"}

C16_ArgumentsUntouched == [][proposals' = proposals /\ rfp' = rfp]_vars

C16_Witness ==
  /\ Done /\ ~CurrencySet /\ Len(Out) = 3
  /\ Out[1].id = IdOf(3) /\ Out[3].id = IdOf(1)
  /\ \A i \in DOMAIN proposals :
        proposals[i].id = IdOf(i) /\ "scores" \notin DOMAIN proposals[i]

\* the proposals with the value of criterion f removed from every one
Without(ps, f) == [i \in DOMAIN ps |-> [ps[i] EXCEPT ![f] = NoNum]]

\* the scores of the call on the same rfp and the proposals Without f
ScoresWithout(f) == ScoreAll(EffectiveProposals(rfp, Without(proposals, f)))

\* alt scores the returned proposals, and as returned on all criteria but f
SameOtherScores(alt, f) ==
  /\ {alt[k].id : k \in DOMAIN alt} = OutIds
  /\ \A j \in DOMAIN Out : \A k \in DOMAIN alt :
       alt[k].id = Out[j].id =>
         \A g \in Criteria \ {f} : ScoreOf(alt[k], g) = ScoreOf(Out[j], g)

\* C18: the criteria are normalised independently: the scores a call
\* returns for two criteria are those of the call on the same input with
\* every value of the third criterion removed, so two inputs that differ
\* in the values of one criterion only (null included) get the same scores
\* on the other two; this holds of price, of delivery and of warranty.
C18_IndependentCriteria ==
  (Done /\ Len(proposals) > 0) =>
    \A f \in Criteria : SameOtherScores(ScoresWithout(f), f)

C18_Witness ==
  /\ Done
  /\ Cardinality(PopValues("totalPrice")) = 2
  /\ \E j, k \in DOMAIN Out :
        /\ Out[j].scores.priceScore = <<0, 1>>
        /\ Out[j].scores.deliveryScore = <<1, 1>>
        /\ Out[j].scores.warrantyScore = <<1, 1>>
        /\ Out[k].scores.priceScore = <<1, 1>>
        /\ Out[k].scores.deliveryScore = <<0, 1>>
        /\ Out[k].scores.warrantyScore = <<0, 1>>

\* the input proposals whose currency is that of the rfp, in input order
MatchingOnly ==
  LET matches(p) == p.currency = rfp.currency
  IN  SelectSeq(proposals, matches)

\* C19: when rfp.currency is set and some proposal matches it, the others
\* have no influence: the result is the one of the call on the matching
\* proposals alone, so changing, adding or removing proposals in other
\* currencies changes no returned proposal, no score and not
\* bestProposalId.
C19_ExcludedHaveNoInfluence ==
  (Done /\ CurrencySet /\ Matching # {} /\ Matching # DOMAIN proposals) =>
    result = ScoredResult(rfp, MatchingOnly)

C19_Witness ==
  /\ Done /\ CurrencySet /\ Cardinality(Matching) = 2
  /\ Cardinality(PopValues("totalPrice")) = 2
  /\ \E i \in DOMAIN proposals \ Matching :
        /\ proposals[i].totalPrice # NoNum
        /\ ValOf(proposals[i].totalPrice) < SetMin(PopValues("totalPrice"))
        /\ proposals[i].currency = "usd"
        /\ i = 1
  /\ Out[1].scores.priceScore = <<1, 1>> /\ Out[2].scores.priceScore = <<0, 1>>
  /\ result.bestProposalId = Out[1].id

\* the worst and the best of the values S of criterion f
WorstOf(f, S) == IF f = "warrantyMonths" THEN SetMin(S) ELSE SetMax(S)

BestOf(f, S) == IF f = "warrantyMonths" THEN SetMax(S) ELSE SetMin(S)

\* returned proposals j and k hold the same delivery and the same warranty
SameButPrice(j, k) ==
  /\ Out[j].deliveryDays = Out[k].deliveryDays
  /\ Out[j].warrantyMonths = Out[k].warrantyMonths

\* C21: when the scored population holds two or more distinct values of a
\* criterion, a proposal without a value gets 0.5, strictly between the 0
\* of the worst value and the 1 of the best; and a proposal without a price
\* is returned before the most expensive proposal that equals it on
\* delivery and warranty.
C21_MissingAboveWorst ==
  Done =>
    /\ \A f \in Criteria :
         Cardinality(PopValues(f)) >= 2 =>
           \A j \in DOMAIN Out :
             /\ Out[j][f] = NoNum =>
                  /\ ScoreOf(Out[j], f) = <<1, 2>>
                  /\ \A k \in DOMAIN Out :
                       /\ Out[k][f] = Some(WorstOf(f, PopValues(f))) =>
                            /\ ScoreOf(Out[k], f) = <<0, 1>>
                            /\ ~Leq(ScoreOf(Out[j], f), ScoreOf(Out[k], f))
                       /\ Out[k][f] = Some(BestOf(f, PopValues(f))) =>
                            /\ ScoreOf(Out[k], f) = <<1, 1>>
                            /\ ~Leq(ScoreOf(Out[k], f), ScoreOf(Out[j], f))
    /\ Cardinality(PopValues("totalPrice")) >= 2 =>
         \A j, k \in DOMAIN Out :
           (/\ Out[j].totalPrice = NoNum
            /\ Out[k].totalPrice = Some(SetMax(PopValues("totalPrice")))
            /\ SameButPrice(j, k)) =>
             /\ j < k
             /\ ~Leq(Out[j].scores.totalScore, Out[k].scores.totalScore)

C21_Witness ==
  /\ Done /\ Len(Out) = 3
  /\ Cardinality(PopValues("totalPrice")) = 2
  /\ \E j, k \in DOMAIN Out :
        /\ Out[j].totalPrice = NoNum
        /\ Out[k].totalPrice = Some(MaxVal)
        /\ SameButPrice(j, k)
        /\ PosOf(Out[k].id) < PosOf(Out[j].id)
        /\ j < k
        /\ Out[j].scores.priceScore = <<1, 2>>
        /\ Out[k].scores.priceScore = <<0, 1>>

\* the proposals linked to an EmailMessage through emailId
LinkedTo(id) == {p \in storedProposals : p.emailId = id}

\* the EmailMessage rows with an id
RowsOf(table, id) == {e \in table : e.id = id}

\* request i wrote its EmailMessage and then failed in the extraction or in
\* the creation of the proposal
FailedAfterEmail(i) == requests[i].failed \in {"extract", "save"}

\* no row is dropped or duplicated, and a status changes from PENDING to
\* PARSED if it changes
StatusMovesForward ==
  /\ \A e \in emailMessages :
       \E n \in RowsOf(emailMessages', e.id) :
         \/ n.status = e.status
         \/ e.status = "PENDING" /\ n.status = "PARSED"
  /\ \A n \in emailMessages' :
       /\ Cardinality(RowsOf(emailMessages', n.id)) = 1
       /\ RowsOf(emailMessages, n.id) = {} => n.status = "PENDING"

\* C22: whatever requests the two routes have served, failed extractions
\* and failed writes included: an EmailMessage that is PARSED has exactly
\* one Proposal linked to it; the EmailMessage of a request whose
\* extraction or proposal creation failed is PENDING and has no Proposal;
\* no EmailMessage is FAILED, and a status only moves from PENDING to
\* PARSED.
C22_ParsedHasOneProposal ==
  /\ [](/\ \A e \in emailMessages :
             /\ e.status \in {"PENDING", "PARSED"}
             /\ e.status = "PARSED" => Cardinality(LinkedTo(e.id)) = 1
        /\ \A i \in DOMAIN requests :
             FailedAfterEmail(i) =>
               /\ \E e \in emailMessages :
                    e.id = requests[i].emailId /\ e.status = "PENDING"
               /\ LinkedTo(requests[i].emailId) = {})
  /\ [][StatusMovesForward]_vars

C22_Witness ==
  /\ Len(requests) = 3
  /\ \E i, j, k \in DOMAIN requests :
        /\ requests[i].route = "webhook" /\ requests[i].status = 200
        /\ \E e \in emailMessages :
             /\ e.id = requests[i].emailId /\ e.status = "PARSED"
             /\ Cardinality(LinkedTo(e.id)) = 1
        /\ requests[j].failed = "extract"
        /\ requests[k].route = "from-text" /\ requests[k].failed = "save"
        /\ \A h \in {j, k} :
             /\ LinkedTo(requests[h].emailId) = {}
             /\ \E e \in emailMessages :
                  e.id = requests[h].emailId /\ e.status = "PENDING"

\* the response that rejects a webhook payload, 0 if none does: the sender
\* and the text first, then the vendor, then the subject
ExpectedStatus(body) ==
  CASE body.from = <<>> \/ body.plain = NULL -> 400
    [] body.from = <<"eve@y.com">> -> 400
    [] body.subject = <<"RFPID:", "zzz", "RFP:", "Laptops">> -> 404
    [] body.subject = <<"Offer", "RFP:", "Chairs">> -> 404
    [] body.subject = <<"Offer">> -> 400
    [] OTHER -> 0

\* webhook request i was rejected by the validation
RejectedWebhook(i) ==
  /\ requests[i].route = "webhook"
  /\ requests[i].status \in {400, 404}

\* the step answers a webhook request with a rejection
RejectsWebhook ==
  /\ Len(requests') = Len(requests) + 1
  /\ requests'[Len(requests')].route = "webhook"
  /\ requests'[Len(requests')].status \in {400, 404}

\* C23: a webhook request that the validation rejects (no sender or no
\* text: 400; sender no vendor: 400; RFPID not found: 404, although the
\* subject also holds a keyword that matches an RFP; keyword that matches
\* no title: 404; no reference in the subject: 400) leaves the tables as
\* they were: it creates no EmailMessage and no Proposal and does not call
\* the extraction.
C23_RejectionWritesNothing ==
  /\ [](\A i \in DOMAIN requests :
          requests[i].route = "webhook" =>
            /\ ExpectedStatus(requests[i].body) # 0 =>
                 /\ requests[i].status = ExpectedStatus(requests[i].body)
                 /\ requests[i].at = "done"
            /\ RejectedWebhook(i) =>
                 /\ ExpectedStatus(requests[i].body) # 0
                 /\ requests[i].emailId = NULL
                 /\ RowsOf(emailMessages, EmailIdOf(i)) = {}
                 /\ \A p \in storedProposals : p.id # ProposalIdOf(i)
                 /\ i \notin extractions)
  /\ [][RejectsWebhook =>
          UNCHANGED <<emailMessages, storedProposals, extractions>>]_vars

C23_Witness ==
  /\ Len(requests) = 3
  /\ requests[1].body = ById /\ requests[1].status = 200
  /\ requests[2].body.subject = <<"RFPID:", "zzz", "RFP:", "Laptops">>
  /\ requests[2].status = 404
  /\ requests[2].error = "RFP not found for provided RFPID in subject"
  /\ requests[3].body.from = <<"eve@y.com">> /\ requests[3].status = 400
  /\ Cardinality(emailMessages) = 1 /\ Cardinality(storedProposals) = 1
  /\ extractions = {1}

\* the messageIds of the payloads
MessageIds == {b.messageId : b \in WebhookBodies} \ {NULL}

\* the deliveries of the mail with messageId m that passed the validation
DeliveriesOf(m) ==
  {i \in Of("webhook") :
     requests[i].body.messageId = m /\ requests[i].status \notin {400, 404}}

\* the stored EmailMessage rows with messageId m
StoredAs(m) == {e \in emailMessages : e.messageId = m}

\* the proposals created from a mail with messageId m
ProposalsFrom(m) ==
  {p \in storedProposals : \E e \in StoredAs(m) : p.emailId = e.id}

\* C24: however many times a mail with a messageId is delivered to the
\* webhook, one after the other or at once, at most one EmailMessage with
\* this messageId is stored and at most one Proposal is created from it:
\* a delivery that finds the messageId stored ends in 500 before the
\* extraction and creates no Proposal.
C24_OneMailPerMessageId ==
  \A m \in MessageIds :
    /\ Cardinality(StoredAs(m)) <= 1
    /\ Cardinality(ProposalsFrom(m)) <= 1
    /\ Cardinality({i \in DeliveriesOf(m) : requests[i].emailId # NULL}) <= 1
    /\ \A i \in DeliveriesOf(m) :
         (requests[i].at = "done" /\ requests[i].emailId = NULL) =>
           /\ requests[i].status = 500
           /\ requests[i].failed = "create"
           /\ i \notin extractions
           /\ \A p \in storedProposals : p.id # ProposalIdOf(i)

C24_Witness ==
  /\ Len(requests) = 3
  /\ \A i \in 1..3 : requests[i].body = ById /\ requests[i].at = "done"
  /\ requests[1].status = 500 /\ requests[1].failed = "create"
  /\ requests[2].status = 200
  /\ requests[3].status = 500 /\ requests[3].failed = "create"
  /\ Cardinality(StoredAs("m1")) = 1 /\ Cardinality(ProposalsFrom("m1")) = 1
  /\ extractions = {2}

====
